---- MODULE Spec2Model ----
(***************************************************************************)
(* Progression engine of learnfast: adaptive pacing (src/adaptive/pacing), *)
(* grading callbacks (src/grading/grader), the assignment controller and   *)
(* the dashboard operations that drive them.                               *)
(*                                                                         *)
(* Number representation.  Scores are Python floats holding a percentage;  *)
(* they are kept here as integers counting tenths of a percent, so 99.9 is *)
(* 999 and 100 is 1000 (Pct converts a whole percentage).  velocity_score  *)
(* is a float moved in steps of 0.1 and clamped to [0.5, 2.0]; it is kept  *)
(* as an integer counting tenths, so 1.0 is 10.  Binary rounding of the    *)
(* float sums (1.2000000000000002 for 1.2) is not represented.             *)
(***************************************************************************)
EXTENDS Integers, Sequences, FiniteSets, TLC

\* ------------------------------------------------------------------ bounds
\* longest streak a run of update_velocity calls builds
MaxStreak == 6
\* update_velocity calls whose score and velocities are remembered
MaxRecent == 3
\* Material rows generated in the dashboard flow
MaxMaterials == 4
\* Submission rows uploaded in the dashboard flow and in the grading runs
MaxSubmissions == 4
\* Dispute rows pending at one time
MaxDisputes == 1
\* Submission rows uploaded in the gradebook runs with manual grading and disputes
MaxReviewed == 2
\* Material rows generated, and Submission rows uploaded, while a student
\* works through the whole course one assignment at a time
MaxCourseMaterials == 9
MaxCourseSubmissions == 7

\* ------------------------------------------------------- program constants
MASTERY_THRESHOLD == 100
DIAGNOSTIC_MASTERY_THRESHOLD == 100
SPEEDUP_STREAK == 3
SLOWDOWN_STREAK == 2
STRUGGLE_THRESHOLD == 70
SKIP_OFFER_STREAK == 5
MIN_PROBLEMS == 15
MAX_PROBLEMS == 35
BASE_PROBLEMS == 25
API_MAX_RETRIES == 3
API_RETRY_DELAY == 2
VELOCITY_MAX == 20
VELOCITY_MIN == 5
VELOCITY_STEP == 1
VELOCITY_DEFAULT == 10

Pct(n) == n * 10

Min(a, b) == IF a <= b THEN a ELSE b
Max(a, b) == IF a >= b THEN a ELSE b

\* Scores handed to update_velocity: below, at and above each threshold.
Scores == {0, Pct(70) - 1, Pct(70), Pct(100) - 1, Pct(100), Pct(150)}

\* --------------------------------------------------------------- curriculum
\* The student's subject: module 1 holds lessons 1 and 2, module 2 holds
\* lesson 3.  Lesson ids grow in curriculum order (Module.number, Lesson.number).
Modules == << [number |-> 1, lessons |-> <<1, 2>>],
              [number |-> 2, lessons |-> <<3>>] >>

\* A second subject loaded into the same database: modules are numbered from
\* 1 within each subject, so its module is a module number 1 too.
OtherModules == << [number |-> 1, lessons |-> <<4>>] >>

NoLesson == 0
NoScore == -1
NoCredit == -1
NoTime == 0

ModuleNumbers == {Modules[i].number : i \in 1..Len(Modules)}
LessonsOf(n) == LET i == CHOOSE j \in 1..Len(Modules) : Modules[j].number = n
                IN Modules[i].lessons
Lessons == UNION {{LessonsOf(n)[j] : j \in 1..Len(LessonsOf(n))} : n \in ModuleNumbers}
ModuleOf(l) == CHOOSE n \in ModuleNumbers :
                   \E j \in 1..Len(LessonsOf(n)) : LessonsOf(n)[j] = l

\* every Module row of the database, and every Lesson row
ModuleRows ==
    {Modules[i] : i \in 1..Len(Modules)} \cup {OtherModules[i] : i \in 1..Len(OtherModules)}
AllLessons == UNION {{m.lessons[j] : j \in 1..Len(m.lessons)} : m \in ModuleRows}
NumberOf(l) ==
    (CHOOSE m \in ModuleRows : \E j \in 1..Len(m.lessons) : m.lessons[j] = l).number

\* query(Module).order_by(Module.number).all(): the rows by number; rows of
\* different subjects with the same number come in the order the database
\* holds them, which depends on which subject was loaded first.
ModuleOrders ==
    {order \in [1..Cardinality(ModuleRows) -> ModuleRows] :
        /\ \A i, j \in DOMAIN order : i # j => order[i] # order[j]
        /\ \A i, j \in DOMAIN order : i < j => order[i].number <= order[j].number}

\* Material rows are told apart by kind, lesson and answer-key size; Submission
\* rows by their material and, once graded, by their place in graded_at order.
Kinds == {"diagnostic", "lesson", "practice", "remediation", "test"}
KeySizes == {1}
MaterialRows == [kind : Kinds, lesson : Lessons, key : KeySizes \cup {Len(Modules)}]

RECURSIVE BagSize(_, _)
BagSize(bag, rows) ==
    IF rows = {} THEN 0
    ELSE LET r == CHOOSE x \in rows : TRUE
         IN bag[r] + BagSize(bag, rows \ {r})

FirstModule == Modules[1].number
FirstLesson == LessonsOf(FirstModule)[1]
LastModule == Modules[Len(Modules)].number

VARIABLES
    ssp,          \* the StudentSubjectProgress row of (student, subject)
    student,      \* the Student row: current_module_id, current_lesson_id
    progress,     \* the Progress row of each lesson
    materials,    \* Material rows: how many of each (kind, lesson, answer-key size)
    pending,      \* Submission rows with status pending: how many per material
    graded,       \* Submission rows with a score, ordered by graded_at
    disputes,     \* Dispute rows with status pending: (graded submission, question)
    lesson_read,  \* lessons whose read flag is set
    module_table, \* the Module rows as a query ordered by number returns them
    api_call,     \* the content-generator call in flight, or how the last one ended
    session,      \* the grader's open database session: what it wrote, not yet committed
    recent,       \* the last MaxRecent update_velocity calls: score, velocity before/after
    answer        \* what the last pacing query returned to its caller

pacing_vars == <<ssp, recent, answer>>
store_vars == <<student, progress, materials, pending, graded, disputes, lesson_read,
               module_table, api_call, session>>
vars == <<ssp, student, progress, materials, pending, graded, disputes, lesson_read,
          module_table, api_call, session, recent, answer>>

\* ------------------------------------------------------------ pacing engine
\* StudentSubjectProgress(student_id, subject_id, current_*): a new row.
NewSubjectProgress ==
    [exists |-> TRUE,
     current_module |-> FirstModule,
     current_lesson |-> FirstLesson,
     status |-> "active",
     consecutive_perfect |-> 0,
     consecutive_struggles |-> 0,
     velocity_score |-> VELOCITY_DEFAULT]

\* query(StudentSubjectProgress)...first() found no row
NoSubjectProgress == [NewSubjectProgress EXCEPT !.exists = FALSE]

get_or_create_subject_progress(p) == IF p.exists THEN p ELSE NewSubjectProgress

\* update_velocity with the perfect branch forgetting to reset the struggles.
update_velocity_keep_struggles(p0, score) ==
    LET p == get_or_create_subject_progress(p0) IN
    IF score >= Pct(MASTERY_THRESHOLD) THEN
        [p EXCEPT !.consecutive_perfect = @ + 1,
                  !.velocity_score = Min(VELOCITY_MAX, @ + VELOCITY_STEP)]
    ELSE IF score < Pct(STRUGGLE_THRESHOLD) THEN
        [p EXCEPT !.consecutive_struggles = @ + 1,
                  !.consecutive_perfect = 0,
                  !.velocity_score = Max(VELOCITY_MIN, @ - VELOCITY_STEP)]
    ELSE
        [p EXCEPT !.consecutive_perfect = 0,
                  !.consecutive_struggles = 0,
                  !.velocity_score = Max(VELOCITY_MIN, Min(VELOCITY_MAX, @))]

\* update_velocity without the min/max clamps on the two moving branches.
update_velocity_unclamped(p0, score) ==
    LET p == get_or_create_subject_progress(p0) IN
    IF score >= Pct(MASTERY_THRESHOLD) THEN
        [p EXCEPT !.consecutive_perfect = @ + 1,
                  !.consecutive_struggles = 0,
                  !.velocity_score = @ + VELOCITY_STEP]
    ELSE IF score < Pct(STRUGGLE_THRESHOLD) THEN
        [p EXCEPT !.consecutive_struggles = @ + 1,
                  !.consecutive_perfect = 0,
                  !.velocity_score = @ - VELOCITY_STEP]
    ELSE
        [p EXCEPT !.consecutive_perfect = 0,
                  !.consecutive_struggles = 0,
                  !.velocity_score = Max(VELOCITY_MIN, Min(VELOCITY_MAX, @))]

\* update_velocity testing score <= STRUGGLE_THRESHOLD instead of <.
update_velocity_le(p0, score) ==
    LET p == get_or_create_subject_progress(p0) IN
    IF score >= Pct(MASTERY_THRESHOLD) THEN
        [p EXCEPT !.consecutive_perfect = @ + 1,
                  !.consecutive_struggles = 0,
                  !.velocity_score = Min(VELOCITY_MAX, @ + VELOCITY_STEP)]
    ELSE IF score <= Pct(STRUGGLE_THRESHOLD) THEN
        [p EXCEPT !.consecutive_struggles = @ + 1,
                  !.consecutive_perfect = 0,
                  !.velocity_score = Max(VELOCITY_MIN, @ - VELOCITY_STEP)]
    ELSE
        [p EXCEPT !.consecutive_perfect = 0,
                  !.consecutive_struggles = 0,
                  !.velocity_score = Max(VELOCITY_MIN, Min(VELOCITY_MAX, @))]

\* update_velocity leaving the streaks alone on a score between the thresholds.
update_velocity_keep_streaks(p0, score) ==
    LET p == get_or_create_subject_progress(p0) IN
    IF score >= Pct(MASTERY_THRESHOLD) THEN
        [p EXCEPT !.consecutive_perfect = @ + 1,
                  !.consecutive_struggles = 0,
                  !.velocity_score = Min(VELOCITY_MAX, @ + VELOCITY_STEP)]
    ELSE IF score < Pct(STRUGGLE_THRESHOLD) THEN
        [p EXCEPT !.consecutive_struggles = @ + 1,
                  !.consecutive_perfect = 0,
                  !.velocity_score = Max(VELOCITY_MIN, @ - VELOCITY_STEP)]
    ELSE
        [p EXCEPT !.velocity_score = Max(VELOCITY_MIN, Min(VELOCITY_MAX, @))]

\* AdaptivePacer.update_velocity: the row after one graded score.
update_velocity(p0, score) ==
    LET p == get_or_create_subject_progress(p0) IN
    IF score >= Pct(MASTERY_THRESHOLD) THEN
        [p EXCEPT !.consecutive_perfect = @ + 1,
                  !.consecutive_struggles = 0,
                  !.velocity_score = Min(VELOCITY_MAX, @ + VELOCITY_STEP)]
    ELSE IF score < Pct(STRUGGLE_THRESHOLD) THEN
        [p EXCEPT !.consecutive_struggles = @ + 1,
                  !.consecutive_perfect = 0,
                  !.velocity_score = Max(VELOCITY_MIN, @ - VELOCITY_STEP)]
    ELSE
        [p EXCEPT !.consecutive_perfect = 0,
                  !.consecutive_struggles = 0,
                  !.velocity_score = Max(VELOCITY_MIN, Min(VELOCITY_MAX, @))]

\* calculate_problem_count testing the struggles before the perfect streak.
calculate_problem_count_struggles_first(p) ==
    IF ~p.exists THEN BASE_PROBLEMS
    ELSE IF p.consecutive_struggles >= SLOWDOWN_STREAK THEN MAX_PROBLEMS
    ELSE IF p.consecutive_perfect >= SPEEDUP_STREAK THEN MIN_PROBLEMS
    ELSE BASE_PROBLEMS

\* calculate_problem_count shortening the worksheet one perfect score late.
calculate_problem_count_late(p) ==
    IF ~p.exists THEN BASE_PROBLEMS
    ELSE IF p.consecutive_perfect > SPEEDUP_STREAK THEN MIN_PROBLEMS
    ELSE IF p.consecutive_struggles >= SLOWDOWN_STREAK THEN MAX_PROBLEMS
    ELSE BASE_PROBLEMS

\* AdaptivePacer.calculate_problem_count
calculate_problem_count(p) ==
    IF ~p.exists THEN BASE_PROBLEMS
    ELSE IF p.consecutive_perfect >= SPEEDUP_STREAK THEN MIN_PROBLEMS
    ELSE IF p.consecutive_struggles >= SLOWDOWN_STREAK THEN MAX_PROBLEMS
    ELSE BASE_PROBLEMS

\* get_difficulty_adjustment comparing the struggles with SPEEDUP_STREAK.
get_difficulty_adjustment_wrong_streak(p) ==
    IF ~p.exists THEN "standard"
    ELSE IF p.consecutive_struggles >= SPEEDUP_STREAK THEN "easier"
    ELSE IF p.consecutive_perfect >= SPEEDUP_STREAK THEN "harder"
    ELSE "standard"

\* AdaptivePacer.get_difficulty_adjustment
get_difficulty_adjustment(p) ==
    IF ~p.exists THEN "standard"
    ELSE IF p.consecutive_struggles >= SLOWDOWN_STREAK THEN "easier"
    ELSE IF p.consecutive_perfect >= SPEEDUP_STREAK THEN "harder"
    ELSE "standard"

\* AdaptivePacer.should_offer_lesson_skip
should_offer_lesson_skip(p) ==
    IF ~p.exists THEN FALSE ELSE p.consecutive_perfect >= SKIP_OFFER_STREAK

StreakRoom(p) ==
    /\ p.consecutive_perfect <= MaxStreak
    /\ p.consecutive_struggles <= MaxStreak

Remember(score, before, after) ==
    LET e == [score |-> score, before |-> before, after |-> after]
        r == Append(recent, e)
    IN IF Len(r) > MaxRecent THEN Tail(r) ELSE r

\* A caller invokes pacer.update_velocity(student, subject, score) directly.
UpdateVelocityCall(score) ==
    LET p == update_velocity(ssp, score) IN
    /\ StreakRoom(p)
    /\ ssp' = p
    /\ recent' = Remember(score, get_or_create_subject_progress(ssp).velocity_score,
                          p.velocity_score)
    /\ UNCHANGED answer
    /\ UNCHANGED store_vars

\* No grading is under way: the grader holds no open session.
NoSession ==
    [stage |-> "closed", material |-> [kind |-> "none", lesson |-> NoLesson, key |-> 0],
     score |-> NoScore, results |-> <<>>, credits |-> <<>>, dirty |-> {}]

\* No generator call has been made.
NoCall ==
    [stage |-> "idle", attempt |-> 0, last_error |-> "none", slept |-> 0, last_wait |-> 0]

NoAnswer ==
    [op |-> "none", count |-> 0, tier |-> "none", skip |-> FALSE, result |-> "none"]

NoProgress ==
    [exists |-> FALSE, mastered |-> FALSE, mastered_at |-> NoTime,
     practice_attempts |-> 0, best_practice_score |-> NoScore]

InitStore ==
    /\ student = [current_module |-> NoLesson, current_lesson |-> NoLesson]
    /\ progress = [l \in AllLessons |-> NoProgress]
    /\ materials = [mat \in MaterialRows |-> 0]
    /\ pending = [mat \in MaterialRows |-> 0]
    /\ graded = <<>>
    /\ disputes = {}
    /\ lesson_read = {}
    /\ module_table \in ModuleOrders
    /\ api_call = NoCall
    /\ session = NoSession

InitPacing ==
    /\ ssp = NoSubjectProgress
    /\ recent = <<>>
    /\ answer = NoAnswer
    /\ InitStore

NextPacing == \E score \in Scores : UpdateVelocityCall(score)

SpecPacing == InitPacing /\ [][NextPacing]_vars

\* ------------------------------------------------- pacing queries on any row
\* Rows a query can be handed: no row, or a row with any pair of streaks.
Velocities == {VELOCITY_MIN, VELOCITY_DEFAULT, VELOCITY_MAX}

SubjectProgressRows ==
    {NoSubjectProgress} \cup
    {[NewSubjectProgress EXCEPT !.consecutive_perfect = cp,
                                !.consecutive_struggles = cs,
                                !.velocity_score = v] :
        cp \in 0..MaxStreak, cs \in 0..MaxStreak, v \in Velocities}

\* calculate_problem_count fetching the row with get_or_create_subject_progress.
ProblemCountCall_creating ==
    /\ answer.op = "none"
    /\ answer' = [NoAnswer EXCEPT !.op = "problem_count",
                                  !.count = calculate_problem_count(ssp)]
    /\ ssp' = get_or_create_subject_progress(ssp)
    /\ UNCHANGED recent
    /\ UNCHANGED store_vars

ProblemCountCall ==
    /\ answer.op = "none"
    /\ answer' = [NoAnswer EXCEPT !.op = "problem_count",
                                  !.count = calculate_problem_count(ssp)]
    /\ UNCHANGED <<ssp, recent, api_call, session>>
    /\ UNCHANGED store_vars

DifficultyCall ==
    /\ answer.op = "none"
    /\ answer' = [NoAnswer EXCEPT !.op = "difficulty",
                                  !.tier = get_difficulty_adjustment(ssp)]
    /\ UNCHANGED <<ssp, recent, api_call, session>>
    /\ UNCHANGED store_vars

SkipCall ==
    /\ answer.op = "none"
    /\ answer' = [NoAnswer EXCEPT !.op = "skip",
                                  !.skip = should_offer_lesson_skip(ssp)]
    /\ UNCHANGED <<ssp, recent, api_call, session>>
    /\ UNCHANGED store_vars

InitRows ==
    /\ ssp \in SubjectProgressRows
    /\ recent = <<>>
    /\ answer = NoAnswer
    /\ InitStore

NextRows == ProblemCountCall \/ DifficultyCall \/ SkipCall

SpecRows == InitRows /\ [][NextRows]_vars

\* ------------------------------------------------------------------ grading
\* One entry of the grading response: the is_correct flag, the optional
\* partial_credit in thousandths of a point, and whether the answer read from
\* the scan is blank or a request for help.
Right == [is_correct |-> TRUE, partial_credit |-> NoCredit, blank |-> FALSE]
Wrong == [is_correct |-> FALSE, partial_credit |-> NoCredit, blank |-> FALSE]
Almost == [is_correct |-> FALSE, partial_credit |-> 999, blank |-> FALSE]
Blank == [is_correct |-> TRUE, partial_credit |-> NoCredit, blank |-> TRUE]

\* grade_submission, post-processing loop: a non-answer is marked incorrect.
PostProcess(r) ==
    IF r.blank THEN [r EXCEPT !.is_correct = FALSE, !.partial_credit = 0] ELSE r

\* r.get("partial_credit", 1.0 if r.get("is_correct") else 0)
ItemCredit(r) ==
    IF r.partial_credit # NoCredit THEN r.partial_credit
    ELSE IF r.is_correct THEN 1000 ELSE 0

RECURSIVE EarnedPoints(_)
EarnedPoints(results) ==
    IF results = <<>> THEN 0
    ELSE ItemCredit(Head(results)) + EarnedPoints(Tail(results))

\* score = earned_points / total_points * 100, else 0 (tenths of a percent)
AutoScore(results, total_points) ==
    IF total_points > 0 THEN EarnedPoints(results) \div total_points ELSE 0

RECURSIVE CountCorrect(_)
CountCorrect(flags) ==
    IF flags = <<>> THEN 0
    ELSE (IF Head(flags) THEN 1 ELSE 0) + CountCorrect(Tail(flags))

\* grade_manually: score = correct / total_points * 100, else 0
ManualScore(flags, total_points) ==
    IF total_points > 0 THEN (CountCorrect(flags) * Pct(100)) \div total_points ELSE 0

\* SubmissionStatus.GRADED if score >= MASTERY_THRESHOLD else NEEDS_RETRY
StatusFor(score) ==
    IF score >= Pct(MASTERY_THRESHOLD) THEN "graded" ELSE "needs_retry"

\* The stored results_json keeps, of each entry, the is_correct flag and the
\* partial_credit when the entry has one.
Flags(results) == [j \in 1..Len(results) |-> results[j].is_correct]
Credits(results) == [j \in 1..Len(results) |-> results[j].partial_credit]

\* question_modules of a diagnostic: question k examines module k.
QuestionModule(k) == k

\* Grader._calculate_module_scores: module number -> percentage, over the
\* result entries whose number is a key of question_modules.
calculate_module_scores(flags, key) ==
    LET mapped == {j \in 1..Len(flags) : j <= key}
        mods == {QuestionModule(j) : j \in mapped}
        total(n) == Cardinality({j \in mapped : QuestionModule(j) = n})
        correct(n) == Cardinality({j \in mapped : QuestionModule(j) = n /\ flags[j]})
    IN [n \in mods |-> IF total(n) > 0 THEN (correct(n) * Pct(100)) \div total(n) ELSE 0]

\* module_scores.get(module.number, 0)
ModuleScore(module_scores, n) ==
    IF n \in DOMAIN module_scores THEN module_scores[n] ELSE 0

MasteredModules(module_scores) ==
    {m.number : m \in {r \in ModuleRows :
        ModuleScore(module_scores, r.number) >= Pct(DIAGNOSTIC_MASTERY_THRESHOLD)}}

\* datetime.utcnow() read while a submission is graded: later than the time
\* read while any earlier submission was graded.
Now == Len(graded) + 1

\* AdaptivePacer.apply_diagnostic_mastery, the Progress rows it leaves: the
\* loop runs over every Module row, whatever its subject.
apply_diagnostic_mastery(prog, module_scores) ==
    [l \in AllLessons |->
        IF NumberOf(l) \in MasteredModules(module_scores)
        THEN [prog[l] EXCEPT !.exists = TRUE, !.mastered = TRUE,
                             !.mastered_at = Now,
                             !.best_practice_score = Pct(100)]
        ELSE prog[l]]

\* AdaptivePacer.apply_diagnostic_mastery, the position it leaves in Student:
\* the first lesson of the first module, in the order the query returned,
\* whose number this diagnostic did not master; when the loop finds none, the
\* last lesson of the last module.
diagnostic_position(st, module_scores, order) ==
    LET open == {i \in 1..Len(order) :
                    /\ order[i].number \notin MasteredModules(module_scores)
                    /\ Len(order[i].lessons) > 0}
        last == order[Len(order)]
    IN IF open # {}
       THEN LET i == CHOOSE j \in open : \A k \in open : j <= k
            IN [current_module |-> order[i].number,
                current_lesson |-> order[i].lessons[1]]
       ELSE IF Len(order) > 0 /\ Len(last.lessons) > 0
            THEN [current_module |-> last.number,
                  current_lesson |-> last.lessons[Len(last.lessons)]]
            ELSE st

update_progress_rounding(row, kind, score) ==
    LET r == [row EXCEPT !.exists = TRUE] IN
    IF kind \in {"practice", "remediation"}
    THEN [r EXCEPT !.practice_attempts = @ + 1,
                   !.best_practice_score =
                       IF @ = NoScore \/ score > @ THEN score ELSE @,
                   !.mastered = IF score >= Pct(100) - 5 THEN TRUE ELSE @,
                   !.mastered_at = IF score >= Pct(100) - 5 THEN Now ELSE @]
    ELSE r

update_progress_reset(row, kind, score) ==
    LET r == [row EXCEPT !.exists = TRUE] IN
    IF kind \in {"practice", "remediation"}
    THEN [r EXCEPT !.practice_attempts = @ + 1,
                   !.best_practice_score =
                       IF @ = NoScore \/ score > @ THEN score ELSE @,
                   !.mastered = score >= Pct(MASTERY_THRESHOLD),
                   !.mastered_at = IF score >= Pct(MASTERY_THRESHOLD) THEN Now ELSE @]
    ELSE r

\* Grader._update_progress: the Progress row of the material's lesson.
update_progress(row, kind, score) ==
    LET r == [row EXCEPT !.exists = TRUE] IN
    IF kind \in {"practice", "remediation"}
    THEN [r EXCEPT !.practice_attempts = @ + 1,
                   !.best_practice_score =
                       IF @ = NoScore \/ score > @ THEN score ELSE @,
                   !.mastered = IF score >= Pct(MASTERY_THRESHOLD) THEN TRUE ELSE @,
                   !.mastered_at = IF score >= Pct(MASTERY_THRESHOLD) THEN Now ELSE @]
    ELSE r

\* A pending submission of material mat is graded with this score and results.
RecordGrade(mat, score, flags, credits) ==
    /\ pending[mat] > 0
    /\ pending' = [pending EXCEPT ![mat] = @ - 1]
    /\ graded' = Append(graded, [material |-> mat, score |-> score,
                                 results |-> flags, credits |-> credits,
                                 status |-> StatusFor(score)])

\* show_pending, "Auto-Grade" button: Grader.grade_submission on a pending
\* submission, when the grading response parses to `response`.
GradeSubmission(mat, response) ==
    LET results == [j \in 1..Len(response) |-> PostProcess(response[j])]
        score == AutoScore(results, mat.key)
    IN
    /\ RecordGrade(mat, score, Flags(results), Credits(results))
    /\ IF mat.kind = "diagnostic"
       THEN LET module_scores == calculate_module_scores(Flags(results), mat.key) IN
            /\ progress' = apply_diagnostic_mastery(progress, module_scores)
            /\ student' = diagnostic_position(student, module_scores, module_table)
            /\ UNCHANGED ssp
       ELSE /\ progress' = [progress EXCEPT
                               ![mat.lesson] = update_progress(@, mat.kind, score)]
            /\ ssp' = update_velocity(ssp, score)
            /\ StreakRoom(ssp')
            /\ UNCHANGED student
    /\ UNCHANGED <<materials, lesson_read, recent, answer, disputes, module_table, api_call, session>>

\* Grader.grade_manually on a pending submission: the caller supplies the
\* is_correct flags.
GradeManually(mat, flags) ==
    LET score == ManualScore(flags, mat.key) IN
    /\ RecordGrade(mat, score, flags, [j \in 1..Len(flags) |-> NoCredit])
    /\ progress' = [progress EXCEPT ![mat.lesson] = update_progress(@, mat.kind, score)]
    /\ UNCHANGED <<ssp, student, materials, lesson_read, recent, answer, disputes, module_table, api_call, session>>

\* show_pending: a scan is submitted against a practice, remediation, test or
\* diagnostic material.
UploadWithin(mat, limit) ==
    /\ materials[mat] > 0
    /\ BagSize(pending, MaterialRows) + Len(graded) < limit
    /\ mat.kind \in {"practice", "remediation", "test", "diagnostic"}
    /\ pending' = [pending EXCEPT ![mat] = @ + 1]
    /\ UNCHANGED <<ssp, student, progress, materials, graded, lesson_read,
                   recent, answer, disputes, module_table, api_call, session>>

Upload(mat) == UploadWithin(mat, MaxSubmissions)
UploadForReview(mat) == UploadWithin(mat, MaxReviewed)

\* -------------------------------------------- grading, write by write
\* AdaptivePacer.update_velocity, the first assignment of the branch taken
update_velocity_first(p0, score) ==
    LET p == get_or_create_subject_progress(p0) IN
    IF score >= Pct(MASTERY_THRESHOLD) THEN [p EXCEPT !.consecutive_perfect = @ + 1]
    ELSE IF score < Pct(STRUGGLE_THRESHOLD) THEN [p EXCEPT !.consecutive_struggles = @ + 1]
    ELSE [p EXCEPT !.consecutive_perfect = 0]

\* AdaptivePacer.update_velocity, the assignments after the first
update_velocity_rest(p, score) ==
    IF score >= Pct(MASTERY_THRESHOLD) THEN
        [p EXCEPT !.consecutive_struggles = 0,
                  !.velocity_score = Min(VELOCITY_MAX, @ + VELOCITY_STEP)]
    ELSE IF score < Pct(STRUGGLE_THRESHOLD) THEN
        [p EXCEPT !.consecutive_perfect = 0,
                  !.velocity_score = Max(VELOCITY_MIN, @ - VELOCITY_STEP)]
    ELSE
        [p EXCEPT !.consecutive_struggles = 0,
                  !.velocity_score = Max(VELOCITY_MIN, Min(VELOCITY_MAX, @))]

\* the writes of grade_submission that are followed by session.commit()
CommitPoints_every_write == {"submission", "progress", "streak", "velocity", "diagnostic"}
CommitPoints == {"velocity", "diagnostic"}

\* the write grade_submission makes after the one the session is at
NextWrite(s) ==
    CASE s.stage = "submission" ->
             IF s.material.kind = "diagnostic" THEN "diagnostic" ELSE "progress"
      [] s.stage = "progress" -> "streak"
      [] s.stage = "streak" -> "velocity"
      [] OTHER -> "closed"

\* session.commit(): the writes in dirty become the rows every reader sees
Commit(s, dirty) ==
    LET module_scores == calculate_module_scores(s.results, s.material.key) IN
    /\ pending' = IF "submission" \in dirty
                  THEN [pending EXCEPT ![s.material] = @ - 1] ELSE pending
    /\ graded' = IF "submission" \in dirty
                 THEN Append(graded, [material |-> s.material, score |-> s.score,
                                      results |-> s.results, credits |-> s.credits,
                                      status |-> StatusFor(s.score)])
                 ELSE graded
    /\ progress' = IF "progress" \in dirty
                   THEN [progress EXCEPT ![s.material.lesson] =
                            update_progress(@, s.material.kind, s.score)]
                   ELSE IF "diagnostic" \in dirty
                   THEN apply_diagnostic_mastery(progress, module_scores)
                   ELSE progress
    /\ student' = IF "diagnostic" \in dirty
                  THEN diagnostic_position(student, module_scores, module_table)
                  ELSE student
    /\ ssp' = IF "streak" \in dirty /\ "velocity" \in dirty
              THEN update_velocity_rest(update_velocity_first(ssp, s.score), s.score)
              ELSE IF "streak" \in dirty THEN update_velocity_first(ssp, s.score)
              ELSE IF "velocity" \in dirty THEN update_velocity_rest(ssp, s.score)
              ELSE ssp

\* one write of grade_submission in the session s, committed with the writes
\* before it when a commit follows it; the session closes after the last write
WriteInSession(s, write) ==
    LET dirty == s.dirty \cup {write}
        last == write \in {"velocity", "diagnostic"}
    IN
    /\ IF write \in CommitPoints
       THEN /\ Commit(s, dirty)
            /\ session' = IF last THEN NoSession
                          ELSE [s EXCEPT !.stage = write, !.dirty = {}]
       ELSE /\ session' = IF last THEN NoSession
                          ELSE [s EXCEPT !.stage = write, !.dirty = dirty]
            /\ UNCHANGED <<ssp, student, progress, pending, graded>>
    /\ UNCHANGED <<materials, lesson_read, recent, answer, disputes, module_table,
                   api_call>>

\* Grader.grade_submission on a pending submission, up to the assignment of
\* score, status and results_json to the Submission row
BeginGrade(mat, response) ==
    LET results == [j \in 1..Len(response) |-> PostProcess(response[j])]
        score == AutoScore(results, mat.key)
    IN
    /\ session.stage = "closed"
    /\ pending[mat] > 0
    /\ mat.kind # "diagnostic" => StreakRoom(update_velocity(ssp, score))
    /\ WriteInSession([NoSession EXCEPT !.material = mat, !.score = score,
                                        !.results = Flags(results),
                                        !.credits = Credits(results)],
                      "submission")

\* Grader.grade_submission, the next write: _update_progress, the assignments
\* of update_velocity, or apply_diagnostic_mastery
ContinueGrade ==
    /\ session.stage \in {"submission", "progress", "streak"}
    /\ WriteInSession(session, NextWrite(session))

\* the points at which grade_submission returns an error result
GradingFailures ==
    {"submission_not_found", "no_material", "unreadable_scan", "no_json", "invalid_json"}

\* the writes grade_submission has made in its session when it returns at a
\* failure point: every error return comes before the assignment of
\* submission.score
WritesBefore_parse_after_score(failure) ==
    IF failure \in {"no_json", "invalid_json"} THEN {"submission"} ELSE {}
WritesBefore(failure) == {}

\* Grader.grade_submission returning an error result: the submission id names
\* no row, the row has no material, the scan cannot be read, or the grading
\* response holds no JSON or JSON that does not parse.  Leaving the session
\* block commits what the session holds.
GradeSubmissionError(mat, failure) ==
    /\ session.stage = "closed"
    /\ failure \notin {"submission_not_found", "no_material"} => pending[mat] > 0
    /\ Commit([NoSession EXCEPT !.material = mat], WritesBefore(failure))
    /\ answer' = [NoAnswer EXCEPT !.op = "grade_submission", !.tier = failure,
                                  !.result = "error"]
    /\ UNCHANGED <<materials, lesson_read, recent, disputes, module_table, api_call,
                   session>>

\* ------------------------------------------------------- assignment planner
CurrentModule == IF ssp.exists THEN ssp.current_module ELSE FirstModule
CurrentLesson == IF ssp.exists THEN ssp.current_lesson ELSE FirstLesson
SubjectDone == ssp.exists /\ ssp.status = "complete"

\* the material belongs to the current position: the current lesson, or the
\* test of the current module once its last lesson is passed
AtPosition(mat) ==
    IF SubjectDone THEN FALSE
    ELSE IF CurrentLesson # NoLesson THEN mat.lesson = CurrentLesson
    ELSE mat.kind = "test" /\ ModuleOf(mat.lesson) = CurrentModule

HasMaterial(kinds) ==
    \E mat \in MaterialRows : materials[mat] > 0 /\ mat.kind \in kinds /\ AtPosition(mat)

PendingAtPosition_after_diagnostic ==
    /\ \E k \in 1..Len(graded) : graded[k].material.kind = "diagnostic"
    /\ \E mat \in MaterialRows : pending[mat] > 0 /\ mat.kind # "diagnostic"

PendingAtPosition ==
    \E mat \in MaterialRows : pending[mat] > 0 /\ AtPosition(mat)

DiagnosticGraded ==
    \E k \in 1..Len(graded) : graded[k].material.kind = "diagnostic"

\* the submission graded last among those of the given kinds at the position
GradedOf(kinds) ==
    {k \in 1..Len(graded) :
        graded[k].material.kind \in kinds /\ AtPosition(graded[k].material)}

LatestGraded_first(kinds) ==
    graded[CHOOSE k \in GradedOf(kinds) : \A k2 \in GradedOf(kinds) : k <= k2]

LatestGraded(kinds) ==
    graded[CHOOSE k \in GradedOf(kinds) : \A k2 \in GradedOf(kinds) : k2 <= k]

Practice == {"practice", "remediation"}

\* LearningStateEngine.get_current_assignment: the state and action of the
\* first rule that matches, in the order 1..12.
get_current_assignment ==
    LET here(state, action) ==
            [state |-> state, action_type |-> action,
             module_number |-> CurrentModule, lesson_id |-> CurrentLesson]
    IN
    IF PendingAtPosition THEN here("PENDING_GRADE", "wait")
    ELSE IF ~DiagnosticGraded THEN here("NEEDS_DIAGNOSTIC", "generate")
    ELSE IF SubjectDone THEN here("SUBJECT_COMPLETE", "none")
    ELSE IF CurrentLesson # NoLesson THEN
        IF ~HasMaterial({"lesson"}) THEN here("LEARNING_LESSON", "generate")
        ELSE IF CurrentLesson \notin lesson_read THEN here("LEARNING_LESSON", "download")
        ELSE IF ~HasMaterial({"practice"}) THEN here("PRACTICE_READY", "generate")
        ELSE IF GradedOf(Practice) = {} THEN here("PRACTICING", "upload")
        ELSE IF LatestGraded(Practice).score >= Pct(100)
             THEN here("MASTERED_LESSON", "continue")
        ELSE IF LatestGraded(Practice).material.kind = "practice"
             THEN here("NEEDS_REMEDIATION", "generate")
        ELSE here("REMEDIATING", "generate")
    ELSE
        IF ~HasMaterial({"test"}) THEN here("TEST_READY", "generate")
        ELSE IF GradedOf({"test"}) = {} THEN here("TESTING", "upload")
        ELSE IF LatestGraded({"test"}).score >= Pct(100)
             THEN here("MODULE_COMPLETE", "continue")
        ELSE here("TEST_READY", "generate")

\* LearningStateEngine.advance_to_next: the next lesson of the module, past
\* its last lesson, the first lesson of the next module, or subject complete.
advance_to_next_restarting(p0) ==
    LET p == get_or_create_subject_progress(p0)
        ls == LessonsOf(p.current_module)
        at == CHOOSE j \in 1..Len(ls) : ls[j] = p.current_lesson
    IN
    IF p.status = "complete"
    THEN [p EXCEPT !.status = "active", !.current_module = FirstModule,
                   !.current_lesson = FirstLesson]
    ELSE IF p.current_lesson # NoLesson THEN
        IF at < Len(ls) THEN [p EXCEPT !.current_lesson = ls[at + 1]]
        ELSE [p EXCEPT !.current_lesson = NoLesson]
    ELSE IF p.current_module # LastModule
         THEN [p EXCEPT !.current_module = @ + 1,
                        !.current_lesson = LessonsOf(p.current_module + 1)[1]]
         ELSE [p EXCEPT !.status = "complete"]

advance_to_next(p0) ==
    LET p == get_or_create_subject_progress(p0)
        ls == LessonsOf(p.current_module)
        at == CHOOSE j \in 1..Len(ls) : ls[j] = p.current_lesson
    IN
    IF p.status = "complete" THEN p
    ELSE IF p.current_lesson # NoLesson THEN
        IF at < Len(ls) THEN [p EXCEPT !.current_lesson = ls[at + 1]]
        ELSE [p EXCEPT !.current_lesson = NoLesson]
    ELSE IF p.current_module # LastModule
         THEN [p EXCEPT !.current_module = @ + 1,
                        !.current_lesson = LessonsOf(p.current_module + 1)[1]]
         ELSE [p EXCEPT !.status = "complete"]

\* LearningStateEngine.mark_lesson_read
mark_lesson_read(read, l) == read \cup {l}

\* ------------------------------------------------------ controller, dashboard
\* the material kind generate_material_for_assignment produces in a state
KindFor(state) ==
    CASE state = "NEEDS_DIAGNOSTIC" -> "diagnostic"
      [] state = "LEARNING_LESSON" -> "lesson"
      [] state \in {"PRACTICE_READY", "PRACTICING"} -> "practice"
      [] state \in {"NEEDS_REMEDIATION", "REMEDIATING"} -> "remediation"
      [] state = "TEST_READY" -> "test"
      [] OTHER -> "none"

\* the lesson the generated Material row is tied to
LessonFor(a) ==
    CASE a.state = "NEEDS_DIAGNOSTIC" -> FirstLesson
      [] a.state = "TEST_READY" -> LessonsOf(a.module_number)[1]
      [] OTHER -> a.lesson_id

\* what a practice generation is requested with: num_problems and difficulty
\* as the pacer returns them for the student's subject row
PracticeRequest(p) ==
    [NoAnswer EXCEPT !.op = "generate_practice",
                     !.count = calculate_problem_count(p),
                     !.tier = get_difficulty_adjustment(p)]

\* _render_assignment_actions, generation states: the button calls
\* generate_material_for_assignment and the generator persists a Material.
GenerateWithin(key, limit) ==
    LET a == get_current_assignment
        mat == [kind |-> KindFor(a.state), lesson |-> LessonFor(a),
                key |-> IF a.state = "NEEDS_DIAGNOSTIC" THEN Len(Modules) ELSE key]
    IN
    /\ a.action_type = "generate"
    /\ BagSize(materials, MaterialRows) < limit
    /\ materials' = [materials EXCEPT ![mat] = @ + 1]
    /\ answer' = IF mat.kind = "practice" THEN PracticeRequest(ssp) ELSE answer
    /\ UNCHANGED <<ssp, student, progress, pending, graded, lesson_read,
                   recent, disputes, module_table, api_call, session>>

GenerateMaterial(key) == GenerateWithin(key, MaxMaterials)

\* the Material types the PDFGenerator method called in a state renders; for a
\* row of any other type the method returns None
RendererTakes_practice_only(state) ==
    CASE state = "NEEDS_DIAGNOSTIC" -> {"diagnostic"}
      [] state = "LEARNING_LESSON" -> {"lesson"}
      [] state \in {"PRACTICE_READY", "PRACTICING",
                    "NEEDS_REMEDIATION", "REMEDIATING"} -> {"practice"}
      [] state = "TEST_READY" -> {"test"}
      [] OTHER -> {}

RendererTakes(state) ==
    CASE state = "NEEDS_DIAGNOSTIC" -> {"diagnostic"}
      [] state = "LEARNING_LESSON" -> {"lesson"}
      [] state \in {"PRACTICE_READY", "PRACTICING",
                    "NEEDS_REMEDIATION", "REMEDIATING"} -> {"practice", "remediation"}
      [] state = "TEST_READY" -> {"test"}
      [] OTHER -> {}

\* AssignmentController.generate_material_for_assignment for the Assignment a:
\* the generator of a's state persists a Material once the model's output
\* parses (parsed) and returns None otherwise; the renderer then returns a
\* path or None; the call returns a result when both did.
generate_material_for_assignment(a, key, parsed) ==
    LET kind == KindFor(a.state)
        mat == [kind |-> kind, lesson |-> LessonFor(a),
                key |-> IF a.state = "NEEDS_DIAGNOSTIC" THEN Len(Modules) ELSE key]
        persisted == kind # "none" /\ parsed
        pdf_path == persisted /\ kind \in RendererTakes(a.state)
        request == IF kind = "practice" THEN PracticeRequest(ssp) ELSE NoAnswer
    IN
    /\ persisted => BagSize(materials, MaterialRows) < MaxMaterials
    /\ materials' = IF persisted THEN [materials EXCEPT ![mat] = @ + 1] ELSE materials
    /\ answer' = [request EXCEPT !.op = "generate_material",
                                 !.result = IF pdf_path THEN "material" ELSE "failed"]
    /\ UNCHANGED <<ssp, student, progress, pending, graded, lesson_read,
                   recent, disputes, module_table, api_call, session>>

\* _render_assignment_actions, generation states, with both outcomes of the
\* generation
GenerateButton(key, parsed) ==
    LET a == get_current_assignment IN
    /\ a.action_type = "generate"
    /\ generate_material_for_assignment(a, key, parsed)

\* _render_assignment_actions, download states whose PDF file is no longer on
\* disk: the Regenerate button passes the download Assignment to
\* generate_material_for_assignment.
RegenerateButton(key, parsed) ==
    LET a == get_current_assignment IN
    /\ a.action_type = "download"
    /\ generate_material_for_assignment(a, key, parsed)

\* ------------------------------------------------------- content generator
\* what client.messages.create does on one attempt: a response whose text
\* holds JSON or does not, or one of the exceptions of the anthropic client
Replies == {"json", "malformed", "rate_limit", "timeout", "server_error", "client_error"}
Transient_any_error == {"rate_limit", "timeout", "server_error", "client_error"}
Transient == {"rate_limit", "timeout", "server_error"}

\* the seconds _api_call_with_retry sleeps after a transient error
RetryWait(reply, attempt) ==
    IF reply = "rate_limit" THEN API_RETRY_DELAY * attempt ELSE API_RETRY_DELAY

\* ContentGenerator.generate_practice is called (by the controller in the
\* practice states, by main.py generate): the lesson is found and the first
\* attempt of _api_call_with_retry is about to be made.
BeginGenerate ==
    /\ api_call.stage # "calling"
    /\ BagSize(materials, MaterialRows) < MaxMaterials
    /\ api_call' = [NoCall EXCEPT !.stage = "calling", !.attempt = 1]
    /\ answer' = PracticeRequest(ssp)
    /\ UNCHANGED <<ssp, student, progress, materials, pending, graded, lesson_read,
                   recent, disputes, module_table, session>>

\* One attempt of _api_call_with_retry inside generate_practice, and what
\* follows it: a response is parsed, and a Material persisted and a result
\* returned when it parses, None returned when it does not; a transient error
\* is slept on and retried, and raised once the attempts are used up; any
\* other API error is raised at once.  Nothing in generate_practice or in
\* generate_material_for_assignment catches what is raised.
ApiAttempt(reply, key) ==
    LET mat == [kind |-> "practice", lesson |-> FirstLesson, key |-> key]
        n == api_call.attempt
    IN
    /\ api_call.stage = "calling"
    /\ api_call' =
          IF reply = "json" THEN [api_call EXCEPT !.stage = "result"]
          ELSE IF reply = "malformed" THEN [api_call EXCEPT !.stage = "returned_none"]
          ELSE IF reply \in Transient THEN
              [api_call EXCEPT
                  !.last_error = reply,
                  !.slept = @ + RetryWait(reply, n),
                  !.last_wait = RetryWait(reply, n),
                  !.attempt = IF n < API_MAX_RETRIES THEN n + 1 ELSE n,
                  !.stage = IF n < API_MAX_RETRIES THEN "calling" ELSE "raised"]
          ELSE [api_call EXCEPT !.last_error = reply, !.stage = "raised"]
    /\ materials' = IF reply = "json" THEN [materials EXCEPT ![mat] = @ + 1] ELSE materials
    /\ UNCHANGED <<ssp, student, progress, pending, graded, lesson_read,
                   recent, answer, disputes, module_table, session>>

\* main.py generate --type practice: the same request from the command line,
\* for any lesson.
GeneratePractice(l, key) ==
    LET mat == [kind |-> "practice", lesson |-> l, key |-> key] IN
    /\ BagSize(materials, MaterialRows) < MaxMaterials
    /\ materials' = [materials EXCEPT ![mat] = @ + 1]
    /\ answer' = PracticeRequest(ssp)
    /\ UNCHANGED <<ssp, student, progress, pending, graded, lesson_read,
                   recent, disputes, module_table, api_call, session>>

\* _render_assignment_actions, "I've Read the Lesson" button
MarkLessonRead ==
    LET a == get_current_assignment IN
    /\ a.state = "LEARNING_LESSON" /\ a.action_type = "download"
    /\ lesson_read' = mark_lesson_read(lesson_read, a.lesson_id)
    /\ UNCHANGED <<ssp, student, progress, materials, pending, graded,
                   recent, answer, disputes, module_table, api_call, session>>

AdvanceStudent_unguarded ==
    /\ ssp.exists
    /\ ssp' = advance_to_next(ssp)
    /\ UNCHANGED <<student, progress, materials, pending, graded,
                   lesson_read, recent, answer, disputes, module_table, api_call, session>>

\* _render_assignment_actions, continue states: advance_student
AdvanceStudent ==
    LET a == get_current_assignment IN
    /\ a.action_type = "continue"
    /\ a.state \in {"MASTERED_LESSON", "MODULE_COMPLETE"}
    /\ ssp' = advance_to_next(ssp)
    /\ UNCHANGED <<student, progress, materials, pending, graded,
                   lesson_read, recent, answer, disputes, module_table, api_call, session>>

\* enroll_student_in_subject
Enroll ==
    /\ ~ssp.exists
    /\ ssp' = NewSubjectProgress
    /\ UNCHANGED <<student, progress, materials, pending, graded,
                   lesson_read, recent, answer, disputes, module_table, api_call, session>>

\* show_history, "Submit Dispute": a Dispute row is added for question q of a
\* graded submission. Pending disputes on the same question are not told apart.
SubmitDispute(k, q) ==
    /\ Cardinality(disputes) < MaxDisputes
    /\ disputes' = disputes \cup {[submission |-> k, question |-> q]}
    /\ UNCHANGED <<ssp, student, progress, materials, pending, graded, lesson_read,
                   recent, answer, module_table, api_call, session>>

\* resolve_dispute: an approval marks the question correct with full credit
\* and recomputes the score as the share of correct entries of the stored
\* results; the dispute leaves the pending list.
ResolveDispute(d, approved) ==
    LET sub == graded[d.submission]
        results == [sub.results EXCEPT ![d.question] = TRUE]
        credits == [sub.credits EXCEPT ![d.question] = 1000]
        new_score == IF Len(results) > 0
                     THEN (CountCorrect(results) * Pct(100)) \div Len(results)
                     ELSE 0
    IN
    /\ disputes' = disputes \ {d}
    /\ graded' = IF approved
                 THEN [graded EXCEPT ![d.submission] =
                          [sub EXCEPT !.results = results, !.credits = credits,
                                      !.score = new_score]]
                 ELSE graded
    /\ UNCHANGED <<ssp, student, progress, materials, pending, lesson_read,
                   recent, answer, module_table, api_call, session>>

\* grading responses exercised by the progression runs
Responses(mat) ==
    IF mat.kind = "diagnostic"
    THEN [1..mat.key -> {Right, Wrong}]
    ELSE [1..mat.key -> {Right, Wrong, Almost}]
ManualFlags(mat) == [1..mat.key -> BOOLEAN]
\* grading responses that list one result more than the answer key has entries
OverlongResponses(mat) ==
    IF mat.kind = "diagnostic" THEN {}
    ELSE [1..(mat.key + 1) -> {Right, Wrong, Almost}]
\* grading responses exercised by the gradebook runs: partial credit on any
\* worksheet
ReviewResponses(mat) == [1..mat.key -> {Right, Wrong, Almost}]

Init ==
    /\ ssp = NoSubjectProgress
    /\ recent = <<>>
    /\ answer = NoAnswer
    /\ InitStore

Next ==
    \/ Enroll
    \/ \E key \in KeySizes : GenerateMaterial(key)
    \/ MarkLessonRead
    \/ \E mat \in MaterialRows : Upload(mat)
    \/ \E mat \in MaterialRows :
           \E response \in Responses(mat) : GradeSubmission(mat, response)
    \/ AdvanceStudent

Spec == Init /\ [][Next]_vars

\* The dashboard with generation that can fail and PDF files that can go
\* missing from the output directory.
NextGenerate ==
    \/ Enroll
    \/ \E key \in KeySizes : \E parsed \in BOOLEAN : GenerateButton(key, parsed)
    \/ \E key \in KeySizes : \E parsed \in BOOLEAN : RegenerateButton(key, parsed)
    \/ MarkLessonRead
    \/ \E mat \in MaterialRows : UploadForReview(mat)
    \/ \E mat \in MaterialRows :
           \E response \in Responses(mat) : GradeSubmission(mat, response)
    \/ AdvanceStudent

SpecGenerate == Init /\ [][NextGenerate]_vars

\* a worksheet that has not been handed in yet
Unsubmitted(mat) ==
    /\ mat.kind \in {"practice", "remediation", "test", "diagnostic"}
    /\ materials[mat] >
           pending[mat] + Cardinality({k \in 1..Len(graded) : graded[k].material = mat})

\* _render_assignment_actions, generation states, for a student who asks for
\* a worksheet only when every worksheet received so far is handed in
GenerateInCourse(key) ==
    /\ \A mat \in MaterialRows : ~Unsubmitted(mat)
    /\ GenerateWithin(key, MaxCourseMaterials)

\* show_pending for a student who hands in each worksheet once, while it is
\* the one the current position asks for, and who scans old worksheets again
\* once the subject is complete
UploadInCourse(mat) ==
    /\ IF SubjectDone THEN TRUE
       ELSE Unsubmitted(mat) /\ (AtPosition(mat) \/ mat.kind = "diagnostic")
    /\ UploadWithin(mat, MaxCourseSubmissions)

\* The whole course: the student does what the dashboard offers, one
\* worksheet at a time, from enrolment to the end of the subject.
NextCourse ==
    \/ Enroll
    \/ \E key \in KeySizes : GenerateInCourse(key)
    \/ MarkLessonRead
    \/ \E mat \in MaterialRows : UploadInCourse(mat)
    \/ \E mat \in MaterialRows :
           \E response \in Responses(mat) : GradeSubmission(mat, response)
    \/ AdvanceStudent

SpecCourse == Init /\ [][NextCourse]_vars

\* Grading on its own: worksheets of every gradable kind generated from the
\* command line (main.py generate, diagnostic) are uploaded and auto-graded.
GradableWorksheets ==
    {[kind |-> "diagnostic", lesson |-> FirstLesson, key |-> Len(Modules)]}
    \cup {[kind |-> kind, lesson |-> FirstLesson, key |-> k] :
             kind \in {"practice", "remediation", "test"}, k \in KeySizes}

InitGrading ==
    /\ ssp = NoSubjectProgress
    /\ recent = <<>>
    /\ answer = NoAnswer
    /\ student = [current_module |-> NoLesson, current_lesson |-> NoLesson]
    /\ progress = [l \in AllLessons |-> NoProgress]
    /\ materials = [mat \in MaterialRows |-> IF mat \in GradableWorksheets THEN 1 ELSE 0]
    /\ pending = [mat \in MaterialRows |-> 0]
    /\ graded = <<>>
    /\ disputes = {}
    /\ lesson_read = {}
    /\ module_table \in ModuleOrders
    /\ api_call = NoCall
    /\ session = NoSession

NextGrading ==
    \/ \E mat \in MaterialRows : Upload(mat)
    \/ \E mat \in MaterialRows :
           \E response \in Responses(mat) : GradeSubmission(mat, response)

SpecGrading == InitGrading /\ [][NextGrading]_vars

\* Grading write by write: worksheets from the command line are uploaded
\* while the grader works through grade_submission in its session.
NextCommit ==
    \/ \E mat \in MaterialRows : UploadForReview(mat)
    \/ \E mat \in MaterialRows :
           \E response \in Responses(mat) : BeginGrade(mat, response)
    \/ ContinueGrade

SpecCommit == InitGrading /\ [][NextCommit]_vars

\* Grading with whatever the grading collaborator returns: the results may
\* outnumber the answer key.
NextCollaborator ==
    \/ \E mat \in MaterialRows : UploadForReview(mat)
    \/ \E mat \in MaterialRows :
           \E response \in Responses(mat) \cup OverlongResponses(mat) :
               GradeSubmission(mat, response)

SpecCollaborator == InitGrading /\ [][NextCollaborator]_vars

\* Grading with a grader that may fail: the scan may be unreadable and the
\* grading response may not parse.
NextGradingErrors ==
    \/ \E mat \in MaterialRows : UploadForReview(mat)
    \/ \E mat \in MaterialRows :
           \E response \in Responses(mat) : GradeSubmission(mat, response)
    \/ \E mat \in MaterialRows :
           \E failure \in GradingFailures : GradeSubmissionError(mat, failure)

SpecGradingErrors == InitGrading /\ [][NextGradingErrors]_vars

\* Practice from the command line: worksheets are generated, uploaded and
\* auto-graded in any order, for a student with or without a subject row.
InitPractice ==
    /\ ssp \in {NoSubjectProgress, NewSubjectProgress}
    /\ recent = <<>>
    /\ answer = NoAnswer
    /\ InitStore

NextPractice ==
    \/ \E l \in {FirstLesson}, key \in KeySizes : GeneratePractice(l, key)
    \/ \E mat \in MaterialRows : Upload(mat)
    \/ \E mat \in MaterialRows :
           \E response \in Responses(mat) : GradeSubmission(mat, response)

SpecPractice == InitPractice /\ [][NextPractice]_vars

\* Practice generation against an API that can fail: calls of
\* generate_practice, attempt by attempt.
NextRetry ==
    \/ BeginGenerate
    \/ \E reply \in Replies : \E key \in KeySizes : ApiAttempt(reply, key)

SpecRetry == InitPractice /\ [][NextRetry]_vars

\* The same calls when every attempt that has begun gets its reply: the API
\* client answers or raises within its timeout.
SpecRetryFair ==
    SpecRetry /\ WF_vars(\E reply \in Replies : \E key \in KeySizes : ApiAttempt(reply, key))

\* The gradebook on its own: worksheets generated from the command line
\* (main.py generate, diagnostic) are uploaded, graded automatically or by hand,
\* and their questions disputed, in a database whose first subject is the
\* student's.
Worksheets ==
    {[kind |-> "diagnostic", lesson |-> FirstLesson, key |-> Len(Modules)]}
    \cup {[kind |-> "practice", lesson |-> l, key |-> k] : l \in {FirstLesson}, k \in KeySizes}

InitReview ==
    /\ ssp = NoSubjectProgress
    /\ recent = <<>>
    /\ answer = NoAnswer
    /\ student = [current_module |-> NoLesson, current_lesson |-> NoLesson]
    /\ progress = [l \in AllLessons |-> NoProgress]
    /\ materials = [mat \in MaterialRows |-> IF mat \in Worksheets THEN 1 ELSE 0]
    /\ pending = [mat \in MaterialRows |-> 0]
    /\ graded = <<>>
    /\ disputes = {}
    /\ lesson_read = {}
    /\ module_table \in {order \in ModuleOrders : order[1] = Modules[1]}
    /\ api_call = NoCall
    /\ session = NoSession

NextReview ==
    \/ \E mat \in MaterialRows : UploadForReview(mat)
    \/ \E mat \in MaterialRows :
           \E response \in Responses(mat) : GradeSubmission(mat, response)
    \/ \E mat \in MaterialRows :
           \E flags \in ManualFlags(mat) : GradeManually(mat, flags)
    \/ \E k \in 1..Len(graded) :
           \E q \in 1..Len(graded[k].results) : SubmitDispute(k, q)
    \/ \E d \in disputes : \E approved \in BOOLEAN : ResolveDispute(d, approved)

SpecReview == InitReview /\ [][NextReview]_vars

\* The gradebook with partial credit on every kind of worksheet.
NextDisputes ==
    \/ \E mat \in MaterialRows : UploadForReview(mat)
    \/ \E mat \in MaterialRows :
           \E response \in ReviewResponses(mat) : GradeSubmission(mat, response)
    \/ \E mat \in MaterialRows :
           \E flags \in ManualFlags(mat) : GradeManually(mat, flags)
    \/ \E k \in 1..Len(graded) :
           \E q \in 1..Len(graded[k].results) : SubmitDispute(k, q)
    \/ \E d \in disputes : \E approved \in BOOLEAN : ResolveDispute(d, approved)

SpecDisputes == InitReview /\ [][NextDisputes]_vars

\* ------------------------------------------------------------------ claims
Perfect(score) == score >= Pct(100)
Struggle(score) == score < Pct(70)

\* a step that grades a submission, and the row it leaves
GradingStep == Len(graded') = Len(graded) + 1
Last(rows) == rows[Len(rows)]

\* the lessons before a position in curriculum order
RECURSIVE Flatten(_)
Flatten(mods) ==
    IF mods = <<>> THEN <<>> ELSE Head(mods).lessons \o Flatten(Tail(mods))
CurriculumOrder(l) == IF l \in Lessons THEN Flatten(Modules) ELSE Flatten(OtherModules)
IndexOf(l) == CHOOSE j \in 1..Len(CurriculumOrder(l)) : CurriculumOrder(l)[j] = l
Before(module, lesson) ==
    IF lesson # NoLesson
    THEN {l \in AllLessons : (l \in Lessons <=> lesson \in Lessons)
                               /\ IndexOf(l) < IndexOf(lesson)}
    ELSE {l \in Lessons : ModuleOf(l) <= module}

\* C2: after any sequence of grading, diagnostic-mastery and advance
\* operations every lesson before the current-position pointer is mastered,
\* for the pointer advance_student moves (StudentSubjectProgress) and for the
\* pointer apply_diagnostic_mastery moves (Student).
C2_NeverPastUnmastered ==
    /\ ssp.exists =>
          \A l \in (IF ssp.status = "complete" THEN Lessons
                     ELSE Before(ssp.current_module, ssp.current_lesson)) :
              progress[l].mastered
    /\ student.current_lesson # NoLesson =>
          \A l \in Before(student.current_module, student.current_lesson) :
              progress[l].mastered

C2_Witness ==
    /\ ssp.exists /\ ssp.current_lesson = 2
    /\ student.current_lesson = 3
    /\ \E k \in 1..Len(graded) :
          graded[k].material.kind = "practice" /\ graded[k].score < Pct(100)

\* C3 as stated: grading a submission of any kind sets Progress.mastered of its
\* lesson when the score is at least 100 and leaves it alone below 100.
C3_AnySubmission ==
    [][GradingStep =>
         LET g == Last(graded')
             l == g.material.lesson
         IN /\ g.score >= Pct(100) => progress'[l].mastered
            /\ g.score < Pct(100) => progress'[l].mastered = progress[l].mastered]_vars

\* C3: grading a practice or remediation submission sets Progress.mastered of
\* its lesson if and only if the score is at least 100 (99.9 does not, 100
\* does); grading a test never sets it; grading a diagnostic sets it by the
\* score of the lesson's module, whatever the score of the submission.
C3_MasteryAtThreshold ==
    [][GradingStep =>
         LET g == Last(graded')
             l == g.material.lesson
             kind == g.material.kind
         IN /\ kind \in {"practice", "remediation"} =>
                  /\ g.score >= Pct(100) => progress'[l].mastered
                  /\ g.score < Pct(100) => progress'[l].mastered = progress[l].mastered
            /\ kind = "test" => progress'[l].mastered = progress[l].mastered
            /\ kind = "diagnostic" =>
                  progress'[l].mastered =
                     (progress[l].mastered
                        \/ ModuleScore(calculate_module_scores(g.results, g.material.key),
                                       ModuleOf(l)) >= Pct(100))]_vars

C3_Witness ==
    /\ Len(graded) = 3
    /\ graded[1].material.kind = "test" /\ graded[1].score = Pct(100)
    /\ graded[2].material.kind = "practice" /\ graded[2].score = Pct(100) - 1
    /\ ~progress[FirstLesson].mastered
    /\ graded[3].material.kind = "diagnostic"

\* C4: Progress.mastered is monotonic: no grading (automatic or manual), no
\* diagnostic application and no dispute resolution sets it back to false.
C4_MasteredMonotonic ==
    [][\A l \in Lessons : progress[l].mastered => progress'[l].mastered]_vars

C4_Witness ==
    /\ Len(graded) = 2
    /\ graded[1].material.kind = "diagnostic" /\ graded[1].score = Pct(50)
    /\ graded[2].material.kind = "practice" /\ graded[2].status = "needs_retry"
    /\ graded[2].score = Pct(100)
    /\ progress[FirstLesson].mastered
    /\ progress[FirstLesson].best_practice_score = Pct(100)
    /\ progress[FirstLesson].practice_attempts = 1

C6_RemediationLoop ==
    [][(/\ GradingStep
        /\ Last(graded').material.kind \in Practice
        /\ AtPosition(Last(graded').material)
        /\ DiagnosticGraded
        /\ ~PendingAtPosition') =>
         LET g == Last(graded')
             state == get_current_assignment'.state
         IN /\ (g.score < Pct(100) /\ GradedOf(Practice) = {}) =>
                  state = "NEEDS_REMEDIATION"
            /\ g.score < Pct(100) => state \in {"NEEDS_REMEDIATION", "REMEDIATING"}
            /\ g.score >= Pct(100) => state = "MASTERED_LESSON"]_vars

C6_Witness ==
    /\ Len(graded) = 4
    /\ graded[2].material.kind = "practice" /\ graded[2].score < Pct(100)
    /\ graded[3].material.kind = "remediation" /\ graded[3].score < Pct(100)
    /\ graded[4].material.kind = "remediation" /\ graded[4].score = Pct(100)
    /\ \A k \in 2..4 : graded[k].material.lesson = FirstLesson
    /\ get_current_assignment.state = "MASTERED_LESSON"

\* C1: after any sequence of update_velocity calls from a fresh record,
\* consecutive_perfect and consecutive_struggles are never both nonzero.
C1_StreaksExclusive ==
    ~(ssp.consecutive_perfect > 0 /\ ssp.consecutive_struggles > 0)

\* a perfect streak of two was broken by a struggling score
C1_Witness ==
    /\ Len(recent) = 3
    /\ Perfect(recent[1].score) /\ Perfect(recent[2].score) /\ Struggle(recent[3].score)
    /\ ssp.consecutive_struggles = 1
    /\ ssp.consecutive_perfect = 0

\* C7: velocity_score stays within [0.5, 2.0] under any sequence of
\* update_velocity calls starting from the default 1.0.
C7_VelocityBounded ==
    /\ ssp.velocity_score >= 5
    /\ ssp.velocity_score <= 20
    /\ \A i \in 1..Len(recent) : recent[i].after >= 5 /\ recent[i].after <= 20

\* a perfect score arrived while the velocity was already 2.0
C7_Witness ==
    /\ Len(recent) > 0
    /\ recent[Len(recent)].before = 20
    /\ Perfect(recent[Len(recent)].score)
    /\ ssp.velocity_score = 20

\* C8: every update_velocity call moves velocity_score by one step: +0.1
\* capped at 2.0 for a score >= 100, -0.1 floored at 0.5 for a score < 70,
\* nothing for 70 <= score < 100; three consecutive perfect scores raise it by
\* min(0.3, 2.0 - v), three consecutive scores below 70 lower it by
\* min(0.3, v - 0.5).
C8_OneStep(c) ==
    /\ c.score >= 1000 => c.after = Min(20, c.before + 1)
    /\ c.score < 700 => c.after = Max(5, c.before - 1)
    /\ (c.score >= 700 /\ c.score < 1000) => c.after = c.before

C8_VelocitySteps ==
    /\ \A i \in 1..Len(recent) : C8_OneStep(recent[i])
    /\ \A i \in 1..(Len(recent) - 1) : recent[i + 1].before = recent[i].after
    /\ Len(recent) > 0 => recent[Len(recent)].after = ssp.velocity_score
    /\ (Len(recent) = 3 /\ \A i \in 1..3 : recent[i].score >= 1000)
          => recent[3].after - recent[1].before = Min(3, 20 - recent[1].before)
    /\ (Len(recent) = 3 /\ \A i \in 1..3 : recent[i].score < 700)
          => recent[1].before - recent[3].after = Min(3, recent[1].before - 5)

\* three perfect scores from 1.9: the raise is clamped to 0.1
C8_Witness ==
    /\ Len(recent) = 3
    /\ \A i \in 1..3 : Perfect(recent[i].score)
    /\ recent[1].before = 19
    /\ ssp.velocity_score = 20

\* C9: problem_count is 15 when consecutive_perfect >= 3, otherwise 35 when
\* consecutive_struggles >= 2, otherwise 25; 25 for a missing record; never
\* anything but 15, 25 or 35.
C9_ProblemCount ==
    answer.op = "problem_count" =>
        /\ answer.count \in {15, 25, 35}
        /\ ~ssp.exists => answer.count = 25
        /\ (ssp.exists /\ ssp.consecutive_perfect >= 3) => answer.count = 15
        /\ (ssp.exists /\ ssp.consecutive_perfect < 3 /\ ssp.consecutive_struggles >= 2)
              => answer.count = 35
        /\ (ssp.exists /\ ssp.consecutive_perfect < 3 /\ ssp.consecutive_struggles < 2)
              => answer.count = 25

\* both streak tests pass on the row: the perfect streak decides
C9_Witness ==
    /\ answer.op = "problem_count"
    /\ ssp.consecutive_perfect >= 3
    /\ ssp.consecutive_struggles >= 2
    /\ answer.count = 15

\* C10: in every state update_velocity can reach, difficulty_tier is easier
\* iff consecutive_struggles >= 2, harder iff consecutive_perfect >= 3 and
\* standard otherwise; the two conditions never hold together, so the tier
\* agrees with problem_count: easier with 35, harder with 15, standard with 25.
C10_TierMatchesCount ==
    LET tier == get_difficulty_adjustment(ssp)
        count == calculate_problem_count(ssp)
    IN  /\ ~(ssp.consecutive_struggles >= 2 /\ ssp.consecutive_perfect >= 3)
        /\ tier = "easier" <=> ssp.consecutive_struggles >= 2
        /\ tier = "harder" <=> ssp.consecutive_perfect >= 3
        /\ tier \in {"easier", "harder", "standard"}
        /\ tier = "easier" <=> count = 35
        /\ tier = "harder" <=> count = 15
        /\ tier = "standard" <=> count = 25

\* two struggles right after a perfect streak of three
C10_Witness ==
    /\ ssp.consecutive_struggles = 2
    /\ Len(recent) = 3 /\ Perfect(recent[1].score)
    /\ recent[1].before >= 12
    /\ get_difficulty_adjustment(ssp) = "easier"
    /\ calculate_problem_count(ssp) = 35

\* C11: every graded practice submission scoring 100 raises
\* consecutive_perfect by exactly one (0, 1, 2, 3 from a fresh student), and a
\* practice generation that follows three consecutive graded practice
\* submissions scoring 100 is requested with 15 problems at difficulty harder.
C11_ThreePerfect ==
    [][/\ (GradingStep /\ Last(graded').material.kind = "practice"
                       /\ Last(graded').score = Pct(100)) =>
            /\ ssp'.exists
            /\ ssp'.consecutive_perfect =
                  (IF ssp.exists THEN ssp.consecutive_perfect ELSE 0) + 1
       /\ (/\ materials' # materials
           /\ Len(graded) >= 3
           /\ \A k \in (Len(graded) - 2)..Len(graded) :
                  graded[k].material.kind = "practice" /\ graded[k].score = Pct(100)) =>
            /\ answer'.op = "generate_practice"
            /\ answer'.count = 15
            /\ answer'.tier = "harder"]_vars

C11_Witness ==
    /\ Len(graded) = 3
    /\ \A k \in 1..3 : graded[k].material.kind = "practice" /\ graded[k].score = Pct(100)
    /\ ssp.consecutive_perfect = 3
    /\ answer.op = "generate_practice" /\ answer.count = 15 /\ answer.tier = "harder"

\* C12: for a student/subject pair without a StudentSubjectProgress row,
\* problem_count returns 25, difficulty_tier returns standard and
\* skip_eligible returns false, and the call leaves every record as it was:
\* no row is created.
C12_MissingRowDefaults ==
    [][(~ssp.exists /\ answer' # answer) =>
         /\ answer'.op = "problem_count" => answer'.count = 25
         /\ answer'.op = "difficulty" => answer'.tier = "standard"
         /\ answer'.op = "skip" => answer'.skip = FALSE
         /\ answer'.op \in {"problem_count", "difficulty", "skip"}
         /\ ssp' = ssp
         /\ store_vars' = store_vars]_vars

C12_Witness ==
    /\ ~ssp.exists
    /\ answer.op = "skip"
    /\ answer.skip = FALSE

\* a step that grades a diagnostic, and the module scores it applies
DiagnosticStep == GradingStep /\ Last(graded').material.kind = "diagnostic"
AppliedScores(g) == calculate_module_scores(g.results, g.material.key)

\* C13: apply_diagnostic_mastery marks mastered, with best_practice_score 100,
\* exactly the lessons of the modules of the student's subject that score at
\* least 100, and leaves the Progress row of every other lesson unchanged.
C13_ExactlyScoredModules ==
    [][DiagnosticStep =>
         LET scores == AppliedScores(Last(graded')) IN
         \A l \in AllLessons :
             IF l \in Lessons /\ ModuleScore(scores, ModuleOf(l)) >= Pct(100)
             THEN progress'[l].mastered /\ progress'[l].best_practice_score = Pct(100)
             ELSE progress'[l] = progress[l]]_vars

\* the position the claim C14 describes, read from the Progress rows
FirstUnmastered(prog) ==
    LET open == {i \in 1..Len(Modules) :
                    \E j \in 1..Len(Modules[i].lessons) :
                        ~prog[Modules[i].lessons[j]].mastered}
        last == Modules[Len(Modules)]
    IN IF open # {}
       THEN Modules[CHOOSE i \in open : \A k \in open : i <= k].lessons[1]
       ELSE last.lessons[Len(last.lessons)]

\* C14: after apply_diagnostic_mastery the student's pointer is at the first
\* lesson of the first module of the subject that the Progress rows do not
\* show fully mastered, whatever was mastered before the call, or at the last
\* lesson of the last module when every module is fully mastered.
C14_PointerAtFirstUnmastered ==
    [][DiagnosticStep => student'.current_lesson = FirstUnmastered(progress')]_vars

\* C15: a second apply_diagnostic_mastery with the same module_scores leaves
\* mastered, mastered_at and best_practice_score of every already-mastered
\* lesson, and the pointer, as the first call left them.
C15_Idempotent ==
    [][(/\ DiagnosticStep
        /\ Len(graded) > 0
        /\ Last(graded).material.kind = "diagnostic"
        /\ AppliedScores(Last(graded)) = AppliedScores(Last(graded'))) =>
         /\ \A l \in AllLessons :
               progress[l].mastered =>
                  /\ progress'[l].mastered = progress[l].mastered
                  /\ progress'[l].mastered_at = progress[l].mastered_at
                  /\ progress'[l].best_practice_score = progress[l].best_practice_score
         /\ student' = student]_vars

\* a call of generate_material_for_assignment returned
GenerateCall == answer' # answer /\ answer'.op = "generate_material"
OfKind(mats, kind, l) ==
    BagSize(mats, {mat \in MaterialRows : mat.kind = kind /\ mat.lesson = l})

\* C16: whenever generate_material_for_assignment returns no result for a
\* generate assignment, no Material has been persisted and the next
\* get_assignment yields the same generate assignment.
C16_FailureRetryable ==
    [][(GenerateCall /\ get_current_assignment.action_type = "generate"
        /\ answer'.result = "failed") =>
           /\ materials' = materials
           /\ get_current_assignment' = get_current_assignment]_vars
C16_Witness ==
    /\ answer.op = "generate_material" /\ answer.result = "failed"
    /\ get_current_assignment.state = "NEEDS_REMEDIATION"
    /\ BagSize(materials, MaterialRows) = 3

\* C17: once a lesson-content Material, or a practice Material, exists for the
\* current lesson, no call of the controller creates a second Material of that
\* kind for that lesson.
C17_NoDuplicateMaterial ==
    [][GenerateCall =>
         \A kind \in {"lesson", "practice"} :
             LET l == get_current_assignment.lesson_id IN
             (l # NoLesson /\ OfKind(materials, kind, l) >= 1)
                 => OfKind(materials', kind, l) = OfKind(materials, kind, l)]_vars

\* a call of advance_to_next moved the pointer or completed the subject
AdvanceStep == ssp' # ssp /\ ssp.exists /\ graded' = graded
PlaceOf(p) ==
    CHOOSE j \in 1..Len(LessonsOf(p.current_module)) :
        LessonsOf(p.current_module)[j] = p.current_lesson

StoredResults(sub) ==
    [j \in 1..Len(sub.results) |->
        [is_correct |-> sub.results[j], partial_credit |-> sub.credits[j],
         blank |-> FALSE]]

\* C19: after any sequence of gradings and dispute resolutions the stored
\* score of every submission equals the score grading computes from its
\* stored per-item results.
C19_ScoreMatchesResults ==
    \A k \in 1..Len(graded) :
        graded[k].score = AutoScore(StoredResults(graded[k]), graded[k].material.key)

\* C20: a content-generator call never raises across its boundary; on every
\* failure it returns null to the controller.
C20_NeverRaises == api_call.stage # "raised"

\* C21: every graded non-diagnostic submission contributes to the streak
\* counters exactly once, whether it is graded automatically or by hand: the
\* step that grades it applies update_velocity once with its score.
C21_StreakOncePerGrade ==
    [][(GradingStep /\ Last(graded').material.kind # "diagnostic") =>
           ssp' = update_velocity(ssp, Last(graded').score)]_vars

\* the length of the longest suffix of the remembered calls whose scores all
\* satisfy the test
RECURSIVE SuffixLength(_, _)
SuffixLength(calls, kind) ==
    IF calls = <<>> THEN 0
    ELSE LET s == calls[Len(calls)].score
             in_kind == IF kind = "perfect" THEN Perfect(s) ELSE Struggle(s)
         IN IF in_kind THEN 1 + SuffixLength(SubSeq(calls, 1, Len(calls) - 1), kind)
            ELSE 0
StreakAgrees(counter, kind) ==
    IF SuffixLength(recent, kind) < Len(recent) \/ Len(recent) < MaxRecent
    THEN counter = SuffixLength(recent, kind)
    ELSE counter >= Len(recent)
StreaksAgree ==
    /\ StreakAgrees(ssp.consecutive_perfect, "perfect")
    /\ StreakAgrees(ssp.consecutive_struggles, "struggles")

\* C22: after any sequence of update_velocity calls consecutive_perfect is the
\* length of the longest suffix of the scores that are all at least 100 and
\* consecutive_struggles the length of the longest suffix of scores all below
\* 70: each call extends the suffix of its kind by one and empties the other,
\* and a score from 70 up to but excluding 100 empties both.
C22_StreakIsSuffix ==
    [][LET s == recent'[Len(recent')].score
           before == get_or_create_subject_progress(ssp)
       IN
       /\ ssp'.consecutive_perfect =
             IF Perfect(s) THEN before.consecutive_perfect + 1 ELSE 0
       /\ ssp'.consecutive_struggles =
             IF Struggle(s) THEN before.consecutive_struggles + 1 ELSE 0
       /\ StreaksAgree']_vars
\* two struggling scores, then a score between the thresholds
C22_Witness ==
    /\ Len(recent) = 3
    /\ Struggle(recent[1].score) /\ Struggle(recent[2].score)
    /\ recent[3].score = Pct(70)
    /\ ssp.consecutive_struggles = 0 /\ ssp.consecutive_perfect = 0

\* an attempt of the generation call in flight got its reply
AttemptStep == api_call.stage = "calling" /\ api_call' # api_call

\* C23: a generation call makes at most 3 API attempts; it goes on to another
\* attempt only after a rate-limit, timeout or server error; any other API
\* error is raised on its first occurrence; the call always ends; and a call
\* that ends without a result, all attempts failed, has persisted no Material.
C23_BoundedRetry ==
    /\ [](api_call.attempt <= 3)
    /\ [][AttemptStep =>
            /\ api_call'.attempt \in {api_call.attempt, api_call.attempt + 1}
            /\ api_call'.attempt > api_call.attempt =>
                  /\ api_call'.stage = "calling"
                  /\ api_call'.last_error \in {"rate_limit", "timeout", "server_error"}
            /\ api_call'.stage = "calling" => api_call'.attempt > api_call.attempt
            /\ api_call'.last_error = "client_error" => api_call'.stage = "raised"
            /\ (api_call'.stage = "raised" /\ api_call'.last_error # "client_error")
                  => api_call.attempt = 3
            /\ api_call'.stage # "result" => materials' = materials]_vars
    /\ (api_call.stage = "calling") ~> (api_call.stage # "calling")
\* the third attempt was rate-limited too and nothing has been persisted
C23_Witness ==
    /\ api_call.stage = "raised"
    /\ api_call.attempt = 3
    /\ api_call.last_error = "rate_limit"
    /\ BagSize(materials, MaterialRows) = 0

\* C24: within one generation call the wait before each retry is strictly
\* longer than the wait before the previous retry, whatever the transient
\* failures were.
C24_IncreasingBackoff ==
    [][(AttemptStep /\ api_call.last_wait > 0 /\ api_call'.attempt > api_call.attempt) =>
           api_call'.last_wait > api_call.last_wait]_vars

\* C25: grading one submission commits its score and status, the lesson's
\* Progress and the streak and velocity update together: in the committed rows
\* one streak counter is never raised while the other is not yet reset, the
\* streak changes only in the step that shows the graded submission, and a
\* graded submission appears only together with its Progress and streak
\* updates.
C25_SingleCommit ==
    /\ [](~(ssp.consecutive_perfect > 0 /\ ssp.consecutive_struggles > 0))
    /\ [][/\ (ssp' # ssp \/ progress' # progress) => GradingStep
          /\ GradingStep =>
                LET g == Last(graded') IN
                IF g.material.kind = "diagnostic"
                THEN /\ progress' = apply_diagnostic_mastery(progress, AppliedScores(g))
                     /\ ssp' = ssp
                ELSE /\ ssp' = update_velocity(ssp, g.score)
                     /\ progress' = [progress EXCEPT ![g.material.lesson] =
                                        update_progress(@, g.material.kind, g.score)]]_vars
\* a reader looks while the grader is between the two streak assignments of a
\* struggling score that follows a perfect one
C25_Witness ==
    /\ session.stage = "streak"
    /\ Struggle(session.score)
    /\ ssp.exists /\ ssp.consecutive_perfect = 1 /\ ssp.consecutive_struggles = 0
    /\ Len(graded) = 1

\* C26: every graded submission's score is within 0..100, whatever per-item
\* results the grading collaborator returns, and its status is graded or
\* needs_retry.
C26_ScoreInRange ==
    \A k \in 1..Len(graded) :
        /\ graded[k].score >= 0
        /\ graded[k].score <= Pct(100)
        /\ graded[k].status \in {"graded", "needs_retry"}

\* C27: in every reachable state a submission with a score has status graded
\* if and only if its score is at least 100, and needs_retry otherwise, also
\* after a dispute approval has changed the score.
C27_StatusFollowsScore ==
    \A k \in 1..Len(graded) :
        /\ graded[k].status = "graded" <=> graded[k].score >= Pct(100)
        /\ graded[k].status = "needs_retry" <=> graded[k].score < Pct(100)


\* C28: in every state reachable through automatic grading, manual grading
\* and apply_diagnostic_mastery, a Progress row is mastered if and only if its
\* best_practice_score is at least 100, and best_practice_score never
\* decreases.
C28_MasteredIffBestScore ==
    /\ [](\A l \in 1..Len(progress) :
              progress[l].exists =>
                  (progress[l].mastered <=> progress[l].best_practice_score >= Pct(100)))
    /\ [][\A l \in 1..Len(progress) :
              progress'[l].best_practice_score >= progress[l].best_practice_score]_vars


\* AdaptivePacer.get_student_status for the student's subject: the current
\* lesson is the first lesson in (Module.number, Lesson.number) order without
\* a mastered Progress row; the next action looks at pending submissions
\* first, then at needs_retry submissions of the current lesson's module, then
\* at the materials and the Progress row of the current lesson.
get_student_status ==
    LET lessons == Flatten(Modules)
        open == {j \in 1..Len(lessons) :
                    ~(progress[lessons[j]].exists /\ progress[lessons[j]].mastered)}
    IN IF open = {}
       THEN [status |-> "complete", current_lesson |-> NoLesson, next_action |-> "none"]
       ELSE LET current == lessons[CHOOSE j \in open : \A k \in open : j <= k]
                pending_count == BagSize(pending, MaterialRows)
                needs_retry ==
                    \E k \in 1..Len(graded) :
                        /\ graded[k].status = "needs_retry"
                        /\ ModuleOf(graded[k].material.lesson) = ModuleOf(current)
                material_types ==
                    {mat.kind : mat \in {m \in MaterialRows :
                                            materials[m] > 0 /\ m.lesson = current}}
                row == progress[current]
            IN [status |-> "in_progress",
                current_lesson |-> current,
                next_action |->
                    IF pending_count > 0 THEN "grade_pending"
                    ELSE IF needs_retry THEN "remediation"
                    ELSE IF "lesson" \notin material_types THEN "generate_lesson"
                    ELSE IF "practice" \notin material_types THEN "generate_practice"
                    ELSE IF ~row.exists \/ row.practice_attempts = 0 THEN "do_practice"
                    ELSE IF row.mastered THEN "next_lesson"
                    ELSE "remediation"]

\* C29: get_student_status reports the first unmastered lesson in curriculum
\* order as the current lesson, and returns next_action remediation only when
\* that current lesson itself has a graded attempt that did not reach mastery:
\* an old needs_retry submission for an earlier, since-mastered lesson of the
\* same module does not cause remediation for the new current lesson.
C29_RemediationForCurrentLesson ==
    LET s == get_student_status
    IN s.status = "in_progress" =>
           /\ ~(progress[s.current_lesson].exists /\ progress[s.current_lesson].mastered)
           /\ \A l \in Before(ModuleOf(s.current_lesson), s.current_lesson) :
                  progress[l].exists /\ progress[l].mastered
           /\ s.next_action = "remediation" =>
                  \E k \in 1..Len(graded) :
                      /\ graded[k].material.lesson = s.current_lesson
                      /\ graded[k].score < Pct(MASTERY_THRESHOLD)


\* a call of grade_submission that returned an error result
ErrorResultStep ==
    answer' # answer /\ answer'.op = "grade_submission" /\ answer'.result = "error"

\* C30: when grade_submission returns an error result (submission or material
\* not found, unreadable scan, unparsable grading response) the submission
\* keeps status pending with no score, and no Progress or
\* StudentSubjectProgress record is created or changed.
C30_ErrorLeavesNoTrace ==
    [][ErrorResultStep =>
           /\ pending' = pending
           /\ graded' = graded
           /\ progress' = progress
           /\ ssp' = ssp
           /\ student' = student]_vars

\* an unparsable grading response came back for a pending submission, with
\* an earlier submission already graded
C30_Witness ==
    /\ answer.op = "grade_submission" /\ answer.result = "error"
    /\ answer.tier = "invalid_json"
    /\ BagSize(pending, MaterialRows) = 1
    /\ Len(graded) = 1

====
